---- MODULE Spec2Model ----
(***************************************************************************)
(* Model of the GET /api/matches handler of server.js: match selection,    *)
(* scorecard detail, ball feed with fallback, overs annotation and the     *)
(* derivation of currentPlayers.  One request is followed from its arrival *)
(* to its response; every action is the synchronous code that runs between *)
(* two awaits of the handler.                                              *)
(***************************************************************************)
EXTENDS Integers, Sequences, FiniteSets, TLC

VARIABLES
  pc,          \* position of the handler: start, awaitMatches, awaitDetail,
               \* awaitBalls, awaitAlt, done
  gradeId,     \* req.query.gradeId ("" when missing)
  teamId,      \* req.query.teamId ("" when missing)
  matches,     \* data.matches || [] as parsed from the matches-list response
  chosen,      \* the chosen match object (mutated in place), or NoMatch
  lastBall,    \* the local lastBall of the handler
  ballsBody,   \* the parsed body of the primary balls call (NotFetched before)
  altBody,     \* the parsed body of the fallback balls call (NotFetched before)
  calls,       \* the upstream calls issued so far, in order
  responses    \* the responses sent so far, in order

vars == <<pc, gradeId, teamId, matches, chosen, lastBall, ballsBody, altBody,
          calls, responses>>

(***************************************************************************)
(* JavaScript / JSON values.  Every value is a record tagged by its type,  *)
(* so that undefined (an absent property), null and 0 stay distinct.       *)
(***************************************************************************)
Undefined == [t |-> "undefined"]
Null == [t |-> "null"]
Num(n) == [t |-> "number", v |-> n]
Str(s) == [t |-> "string", v |-> s]
Bool(b) == [t |-> "boolean", v |-> b]
Arr(s) == [t |-> "array", items |-> s]
EmptyObj == [t |-> "object"]

\* a function value, such as the method a property read of a string finds on
\* String.prototype; JSON.stringify leaves a property that holds one out
Function(name) == [t |-> "function", name |-> name]

IsNullish(v) == v.t \in {"undefined", "null"}
IsArray(v) == v.t = "array"
IsObject(v) == v.t = "object"

\* ToBoolean: undefined, null, 0, "" and false are falsy; objects and arrays truthy
Truthy(v) ==
  CASE v.t \in {"undefined", "null"} -> FALSE
    [] v.t = "number" -> v.v # 0
    [] v.t = "string" -> v.v # ""
    [] v.t = "boolean" -> v.v
    [] OTHER -> TRUE

\* the property names the handler reads that String.prototype defines
StringMethods == {"match"}

\* property read o.f on a non-nullish value: a missing property is undefined
\* (the callers decide separately whether o is nullish, where the read
\* throws); on a string the read reaches String.prototype
Get(o, f) ==
  IF IsObject(o) /\ f \in DOMAIN o THEN o[f]
  ELSE IF o.t = "string" /\ f \in StringMethods THEN Function(f)
  ELSE Undefined

\* a === b on values parsed from JSON: two objects or two arrays are never
\* the same object, the other values are compared by value
StrictEquals(a, b) == a.t \notin {"object", "array"} /\ a = b

\* a || b
OrElse(a, b) == IF Truthy(a) THEN a ELSE b

\* a ?? b
Coalesce(a, b) == IF IsNullish(a) THEN b ELSE a

\* the last element of a non-empty array
LastOf(s) == s[Len(s)]

(***************************************************************************)
(* Upstream responses and parseBody.  A response either never arrives      *)
(* (fetch rejects) or carries a text body: JSON text, an HTML page that    *)
(* embeds `window.Dto = {...};`, or text that is neither.                  *)
(***************************************************************************)
NetError == [net |-> "error"]
JsonBody(v) == [net |-> "ok", fmt |-> "json", value |-> v]
HtmlBody(v) == [net |-> "ok", fmt |-> "html", dto |-> v]
Garbage == [net |-> "ok", fmt |-> "text"]

Failed == [ok |-> FALSE]
Parsed(v) == [ok |-> TRUE, value |-> v]
NotFetched == [ok |-> FALSE, pending |-> TRUE]

\* parseBody when an unparseable body is taken for an empty object
parseBody_Lenient(resp) ==
  CASE resp.fmt = "json" -> Parsed(resp.value)
    [] resp.fmt = "html" -> Parsed(resp.dto)
    [] OTHER -> Parsed(EmptyObj)

\* JSON.parse(text) first; on failure the window.Dto capture; else throw
parseBody(resp) ==
  CASE resp.fmt = "json" -> Parsed(resp.value)
    [] resp.fmt = "html" -> Parsed(resp.dto)
    [] OTHER -> Failed

\* await fetch(url) followed by await parseBody(response)
fetchAndParse(resp) == IF resp.net = "error" THEN Failed ELSE parseBody(resp)

(***************************************************************************)
(* Matches, teams and the selection of the chosen match.                   *)
(***************************************************************************)
NoMatch == [t |-> "none"]

Team(id) == [id |-> id, oversBowled |-> Undefined]

\* a match of the upstream list; detail, lastBall and currentPlayers are the
\* properties the handler adds later (undefined until then)
Match(id, teamIds, status, schedule) ==
  [t |-> "object", id |-> id,
   teams |-> [i \in 1..Len(teamIds) |-> Team(teamIds[i])],
   status |-> status, matchSchedule |-> schedule,
   detail |-> Undefined, lastBall |-> Undefined, currentPlayers |-> Undefined]

\* the ISO start times the upstream uses, in chronological order
Dates == <<"2024-01-06T00:30:00Z", "2024-01-13T00:30:00Z",
           "2024-01-20T00:30:00Z", "2024-01-27T00:30:00Z">>

\* Date.parse, in minutes since the epoch (the handler only uses differences)
DateParse(s) ==
  CASE s = "2024-01-06T00:30:00Z" -> 28408350
    [] s = "2024-01-13T00:30:00Z" -> 28418430
    [] s = "2024-01-20T00:30:00Z" -> 28428510
    [] s = "2024-01-27T00:30:00Z" -> 28438590

\* m.teams.some(t => t.id === teamId)
hasTeam(m, tid) == \E i \in 1..Len(m.teams) : m.teams[i].id = tid

\* a slip: the filter on the team is left out
teamMatchesOf_AnyTeam(ms, tid) == ms

\* matches.filter(m => m.teams.some(t => t.id === teamId))
teamMatchesOf(ms, tid) == SelectSeq(ms, LAMBDA m : hasTeam(m, tid))

\* teamMatches.filter(m => m.status !== 'UPCOMING')
nonUpcomingOf(tm) == SelectSeq(tm, LAMBDA m : m.status # "UPCOMING")

\* a slip: no preference for the matches that are not UPCOMING
candidateMatchesOf_AnyStatus(tm) == tm

\* nonUpcoming.length ? nonUpcoming : teamMatches
candidateMatchesOf(tm) ==
  IF Len(nonUpcomingOf(tm)) > 0 THEN nonUpcomingOf(tm) ELSE tm

\* (m.matchSchedule && m.matchSchedule[0] && m.matchSchedule[0].startDateTime) || null
getScheduleStart(m) ==
  IF Len(m.matchSchedule) > 0 /\ m.matchSchedule[1].startDateTime # ""
  THEN Str(m.matchSchedule[1].startDateTime)
  ELSE Null

\* a slip: tA - tB, the ascending order
compareFn_Ascending(a, b) ==
  LET sa == getScheduleStart(a)
      sb == getScheduleStart(b)
  IN  IF sa = Null /\ sb = Null THEN 0
      ELSE IF sa = Null THEN -1
      ELSE IF sb = Null THEN 1
      ELSE DateParse(sa.v) - DateParse(sb.v)

\* the sort comparator: tB - tA with -Infinity for a match without a start;
\* -Infinity - -Infinity is NaN, which Array.prototype.sort reads as +0
compareFn(a, b) ==
  LET sa == getScheduleStart(a)
      sb == getScheduleStart(b)
  IN  IF sa = Null /\ sb = Null THEN 0
      ELSE IF sa = Null THEN 1
      ELSE IF sb = Null THEN -1
      ELSE DateParse(sb.v) - DateParse(sa.v)

\* insertion of x into the sorted prefix s: before the first element that the
\* comparator puts after x, so that equal elements keep their order
RECURSIVE insertSorted(_, _)
insertSorted(x, s) ==
  IF s = <<>> THEN <<x>>
  ELSE IF compareFn(x, Head(s)) < 0 THEN <<x>> \o s
  ELSE <<Head(s)>> \o insertSorted(x, Tail(s))

\* candidateMatches.sort(comparator): Array.prototype.sort is stable
RECURSIVE sortFrom(_, _)
sortFrom(s, acc) ==
  IF s = <<>> THEN acc ELSE sortFrom(Tail(s), insertSorted(Head(s), acc))

sortCandidates(s) == sortFrom(s, <<>>)

\* const chosen = candidateMatches[0], for a team that has matches
chooseMatch(ms, tid) == sortCandidates(candidateMatchesOf(teamMatchesOf(ms, tid)))[1]

(***************************************************************************)
(* Scorecard detail: the two envelope levels.                              *)
(***************************************************************************)
\* detailData.matches[0] when there is a non-empty matches array, then
\* detailData.match when there is one
unwrapDetail(d) ==
  LET d1 == IF Truthy(d) /\ IsArray(Get(d, "matches"))
               /\ Len(Get(d, "matches").items) > 0
            THEN Get(d, "matches").items[1]
            ELSE d
  IN  IF Truthy(d1) /\ Truthy(Get(d1, "match")) THEN Get(d1, "match") ELSE d1

\* chosen.detail after the detail call: the unwrapped body, or null when the
\* fetch or the parse failed
detailOf(parsed) == IF parsed.ok THEN unwrapDetail(parsed.value) ELSE Null

(***************************************************************************)
(* Ball feed: classification of the payload, normalization into a list of  *)
(* innings, and the last ball.  The result tells whether the code threw.   *)
(***************************************************************************)
\* a slip: the wrapped-balls shape {balls: [...]} is not recognized
inningsArrayOf_NoWrappedBalls(body) ==
  IF IsArray(body)
  THEN IF Len(body.items) > 0 /\ Truthy(body.items[1])
          /\ Truthy(Get(body.items[1], "balls"))
       THEN body.items
       ELSE <<[t |-> "object", balls |-> body]>>
  ELSE IF Truthy(body) /\ IsArray(Get(body, "innings"))
  THEN Get(body, "innings").items
  ELSE <<>>

\* inningsArray when every array is taken for an array of innings
inningsArrayOf_InningsOnly(body) ==
  IF IsArray(body)
  THEN body.items
  ELSE IF Truthy(body) /\ IsArray(Get(body, "innings"))
  THEN Get(body, "innings").items
  ELSE IF Truthy(body) /\ IsArray(Get(body, "balls"))
  THEN <<[t |-> "object", balls |-> Get(body, "balls")]>>
  ELSE <<>>

\* inningsArray (primary) / altInnings (fallback)
inningsArrayOf(body) ==
  IF IsArray(body)
  THEN IF Len(body.items) > 0 /\ Truthy(body.items[1])
          /\ Truthy(Get(body.items[1], "balls"))
       THEN body.items
       ELSE <<[t |-> "object", balls |-> body]>>
  ELSE IF Truthy(body) /\ IsArray(Get(body, "innings"))
  THEN Get(body, "innings").items
  ELSE IF Truthy(body) /\ IsArray(Get(body, "balls"))
  THEN <<[t |-> "object", balls |-> Get(body, "balls")]>>
  ELSE <<>>

\* the minute of the day of a ballTime, 0 without one
ballMinutes(b) ==
  CASE Get(b, "ballTime") = Str("2024-01-06T02:05:00Z") -> 125
    [] Get(b, "ballTime") = Str("2024-01-06T02:10:00Z") -> 130
    [] OTHER -> 0

\* the ball of the latest ballTime of a list, the later one of equal times
RECURSIVE latestBall(_)
latestBall(balls) ==
  IF Len(balls) = 1 THEN balls[1]
  ELSE LET rest == latestBall(Tail(balls))
       IN  IF ballMinutes(Head(balls)) > ballMinutes(rest) THEN Head(balls) ELSE rest

\* a slip: the last ball is the ball of the latest ballTime of the last
\* innings
lastBallOf_LatestTime(body, prev) ==
  LET inn == inningsArrayOf(body)
  IN  IF Len(inn) = 0 THEN [threw |-> FALSE, ball |-> prev]
      ELSE IF IsNullish(LastOf(inn)) THEN [threw |-> TRUE, ball |-> prev]
      ELSE LET b == Get(LastOf(inn), "balls")
               inningsBalls == IF IsArray(b) THEN b.items ELSE <<>>
           IN  IF Len(inningsBalls) > 0
               THEN [threw |-> FALSE, ball |-> latestBall(inningsBalls)]
               ELSE [threw |-> FALSE, ball |-> prev]

\* the last ball of the last innings; reading .balls of a null or undefined
\* last innings throws; without a ball the local lastBall keeps its value
lastBallOf(body, prev) ==
  LET inn == inningsArrayOf(body)
  IN  IF Len(inn) = 0 THEN [threw |-> FALSE, ball |-> prev]
      ELSE IF IsNullish(LastOf(inn)) THEN [threw |-> TRUE, ball |-> prev]
      ELSE LET b == Get(LastOf(inn), "balls")
               inningsBalls == IF IsArray(b) THEN b.items ELSE <<>>
           IN  IF Len(inningsBalls) > 0
               THEN [threw |-> FALSE, ball |-> LastOf(inningsBalls)]
               ELSE [threw |-> FALSE, ball |-> prev]

\* lastBall after a balls call whose body parsed or not; a failed fetch or
\* parse throws before lastBall is assigned
resolveBall(parsed, prev) ==
  IF parsed.ok THEN lastBallOf(parsed.value, prev)
  ELSE [threw |-> TRUE, ball |-> prev]

(***************************************************************************)
(* Overs annotation (step 7), outside every try block of the enrichment.   *)
(***************************************************************************)
\* chosen.detail.innings.find(inn => inn.battingTeamId === team.id): reading
\* battingTeamId of a null or undefined element throws
RECURSIVE findInnings(_, _)
findInnings(items, tid) ==
  IF items = <<>> THEN [threw |-> FALSE, value |-> Undefined]
  ELSE IF IsNullish(Head(items)) THEN [threw |-> TRUE, value |-> Undefined]
  ELSE IF StrictEquals(Get(Head(items), "battingTeamId"), Str(tid))
       THEN [threw |-> FALSE, value |-> Head(items)]
       ELSE findInnings(Tail(items), tid)

\* chosen.detail && Array.isArray(chosen.detail.innings)
hasInningsList(detail) == Truthy(detail) /\ IsArray(Get(detail, "innings"))

\* the forEach over chosen.teams throws
oversThrows(ch) ==
  /\ hasInningsList(ch.detail)
  /\ \E i \in 1..Len(ch.teams) :
        findInnings(Get(ch.detail, "innings").items, ch.teams[i].id).threw

\* team.oversBowled = teamInnings.oversBowled || "0.0", or "0.0" without innings
teamOvers(team, items) ==
  LET teamInnings == findInnings(items, team.id).value
  IN  IF teamInnings # Undefined
      THEN OrElse(Get(teamInnings, "oversBowled"), Str("0.0"))
      ELSE Str("0.0")

\* the teams of chosen after step 7
annotateOvers(ch) ==
  IF hasInningsList(ch.detail)
  THEN [ch EXCEPT !.teams =
          [i \in 1..Len(ch.teams) |->
             [ch.teams[i] EXCEPT !.oversBowled =
                teamOvers(ch.teams[i], Get(ch.detail, "innings").items)]]]
  ELSE ch

\* the place in chosen.teams of the first team whose find throws
firstThrowingTeam(ch) ==
  CHOOSE i \in 1..Len(ch.teams) :
    /\ findInnings(Get(ch.detail, "innings").items, ch.teams[i].id).threw
    /\ \A j \in 1..(i - 1) :
         ~findInnings(Get(ch.detail, "innings").items, ch.teams[j].id).threw

\* the teams of chosen when the forEach of step 7 throws: the teams before
\* the throwing one are annotated, the others are not
annotateOversUntilThrow(ch) ==
  [ch EXCEPT !.teams =
     [i \in 1..Len(ch.teams) |->
        IF i < firstThrowingTeam(ch)
        THEN [ch.teams[i] EXCEPT !.oversBowled =
                teamOvers(ch.teams[i], Get(ch.detail, "innings").items)]
        ELSE ch.teams[i]]]

(***************************************************************************)
(* currentPlayers (steps 8 and 9).  A property the code never assigns is   *)
(* undefined: it is absent from the JSON of the response.                  *)
(***************************************************************************)
StatFields == {"strikerRuns", "strikerBalls", "nonStrikerRuns", "nonStrikerBalls",
               "bowlerRuns", "bowlerBalls"}
BowlingFields == {"bowlerOvers", "bowlerMaidens", "bowlerRunsConceded",
                  "bowlerWickets", "bowlerNoBalls", "bowlerWides",
                  "bowlerEconomy", "isBowling"}

\* the object literal assigned to chosen.currentPlayers
basePlayers(lb) ==
  [f \in StatFields \cup BowlingFields |-> Undefined] @@
  [t |-> "object",
   strikerId |-> OrElse(Get(lb, "strikerParticipantId"), Null),
   strikerName |-> OrElse(OrElse(Get(lb, "strikerShortName"), Get(lb, "striker")), Null),
   nonStrikerId |-> OrElse(Get(lb, "nonStrikerParticipantId"), Null),
   nonStrikerName |-> OrElse(OrElse(Get(lb, "nonStrikerShortName"), Get(lb, "nonStriker")), Null),
   bowlerId |-> OrElse(Get(lb, "bowlerParticipantId"), Null),
   bowlerName |-> OrElse(OrElse(Get(lb, "bowlerShortName"), Get(lb, "bowler")), Null),
   lastBallTime |-> OrElse(Get(lb, "ballTime"), Null)]

\* b.participantId === id || (b.participant && b.participant.id === id)
matchesParticipant(b, id) ==
  \/ StrictEquals(Get(b, "participantId"), id)
  \/ Truthy(Get(b, "participant")) /\ StrictEquals(Get(Get(b, "participant"), "id"), id)

\* findBat / findBowl: list.find(...) || null; reading a property of a null or
\* undefined element throws
RECURSIVE findEntry(_, _)
findEntry(items, id) ==
  IF items = <<>> THEN [threw |-> FALSE, value |-> Null]
  ELSE IF IsNullish(Head(items)) THEN [threw |-> TRUE, value |-> Null]
  ELSE IF matchesParticipant(Head(items), id)
       THEN [threw |-> FALSE, value |-> Head(items)]
       ELSE findEntry(Tail(items), id)

\* a slip: entry.primary || entry.alias || dflt, which drops a recorded 0
statOf_Falsy(entry, primary, alias, dflt) ==
  OrElse(OrElse(Get(entry, primary), Get(entry, alias)), dflt)

\* entry.primary ?? entry.alias ?? dflt
statOf(entry, primary, alias, dflt) ==
  Coalesce(Coalesce(Get(entry, primary), Get(entry, alias)), dflt)

\* one of the three batting lookups and its two assignments
batStep(st, idField, runsField, ballsField, battingList) ==
  IF st.threw THEN st
  ELSE LET r == findEntry(battingList, st.cp[idField])
       IN  IF r.threw THEN [st EXCEPT !.threw = TRUE]
           ELSE IF r.value # Null
           THEN [st EXCEPT
                   !.cp[runsField] = statOf(r.value, "runsScored", "runs", Null),
                   !.cp[ballsField] = statOf(r.value, "ballsFaced", "balls", Null)]
           ELSE [st EXCEPT !.cp[runsField] = Null, !.cp[ballsField] = Null]

\* a slip: no-balls and wides default to null like the other figures
bowlingFigures_NullDefaults(cp, e) ==
  [cp EXCEPT
     !.bowlerOvers = Coalesce(Coalesce(Get(e, "oversBowled"), Get(e, "overs")), Null),
     !.bowlerMaidens = Coalesce(Coalesce(Get(e, "maidensBowled"), Get(e, "maidens")), Null),
     !.bowlerRunsConceded = Coalesce(Coalesce(Get(e, "runsConceded"), Get(e, "runs")), Null),
     !.bowlerWickets = Coalesce(Coalesce(Get(e, "wicketsTaken"), Get(e, "wickets")), Null),
     !.bowlerNoBalls = Coalesce(Get(e, "noBalls"), Null),
     !.bowlerWides = Coalesce(Coalesce(Get(e, "wideBalls"), Get(e, "wides")), Null),
     !.bowlerEconomy = Coalesce(Get(e, "economy"), Null),
     !.isBowling = Coalesce(Get(e, "isBowling"), Null)]

\* the eight bowling assignments for a found entry
bowlingFigures(cp, e) ==
  [cp EXCEPT
     !.bowlerOvers = statOf(e, "oversBowled", "overs", Null),
     !.bowlerMaidens = statOf(e, "maidensBowled", "maidens", Null),
     !.bowlerRunsConceded = statOf(e, "runsConceded", "runs", Null),
     !.bowlerWickets = statOf(e, "wicketsTaken", "wickets", Null),
     !.bowlerNoBalls = statOf(e, "noBalls", "noBalls", Num(0)),
     !.bowlerWides = statOf(e, "wideBalls", "wides", Num(0)),
     !.bowlerEconomy = Coalesce(Get(e, "economy"), Null),
     !.isBowling = Coalesce(Get(e, "isBowling"), Null)]

\* the inner try block: the bowling figures of the current bowler
bowlStep(st, bowlingList) ==
  IF st.threw THEN st.cp
  ELSE LET r == findEntry(bowlingList, st.cp.bowlerId)
       IN  IF r.threw THEN st.cp
           ELSE IF r.value # Null THEN bowlingFigures(st.cp, r.value)
           ELSE [f \in BowlingFields |-> Null] @@ st.cp

\* Array.isArray(x) ? x : []
listOrEmpty(x) == IF IsArray(x) THEN x.items ELSE <<>>

\* chosen.currentPlayers for a truthy last ball: the identities, then the
\* figures of the last innings of the detail inside the two try blocks
buildCurrentPlayers(lb, detail) ==
  LET base == basePlayers(lb)
  IN  IF ~(hasInningsList(detail) /\ Len(Get(detail, "innings").items) > 0)
      THEN base
      ELSE LET lastInningsDetail == LastOf(Get(detail, "innings").items)
           IN  IF IsNullish(lastInningsDetail) THEN base
               ELSE LET battingList == listOrEmpty(Get(lastInningsDetail, "batting"))
                        bowlingList == listOrEmpty(Get(lastInningsDetail, "bowling"))
                        s0 == [threw |-> FALSE, cp |-> base]
                        s1 == batStep(s0, "strikerId", "strikerRuns", "strikerBalls", battingList)
                        s2 == batStep(s1, "nonStrikerId", "nonStrikerRuns", "nonStrikerBalls", battingList)
                        s3 == batStep(s2, "bowlerId", "bowlerRuns", "bowlerBalls", battingList)
                    IN  bowlStep(s3, bowlingList)

\* a slip: currentPlayers is built only when there is a detail
attachPlayers_NeedsDetail(ch, lb) ==
  IF Truthy(lb)
  THEN [ch EXCEPT !.lastBall = lb,
                  !.currentPlayers =
                     IF Truthy(ch.detail) THEN buildCurrentPlayers(lb, ch.detail)
                     ELSE Null]
  ELSE [ch EXCEPT !.lastBall = Null, !.currentPlayers = Null]

\* steps 8 and 9: attach lastBall and currentPlayers to chosen
attachPlayers(ch, lb) ==
  IF Truthy(lb)
  THEN [ch EXCEPT !.lastBall = lb,
                  !.currentPlayers = buildCurrentPlayers(lb, ch.detail)]
  ELSE [ch EXCEPT !.lastBall = Null, !.currentPlayers = Null]

(***************************************************************************)
(* Responses.                                                              *)
(***************************************************************************)
BadRequest == [status |-> 400, error |-> "Missing gradeId parameter", matches |-> <<>>]
ServerError == [status |-> 500, error |-> "error.message", matches |-> <<>>]
Ok(ms) == [status |-> 200, error |-> "", matches |-> ms]

\* steps 7 to 9 and the response, once the ball feed is settled: a throw of
\* the overs annotation reaches the outer catch, and the teams annotated
\* before it keep their oversBowled
finish(ch, lb) ==
  IF oversThrows(ch) THEN [chosen |-> annotateOversUntilThrow(ch), response |-> ServerError]
  ELSE LET done == attachPlayers(annotateOvers(ch), lb)
       IN  [chosen |-> done, response |-> Ok(<<done>>)]

(***************************************************************************)
(* The handler, one action per stretch of code between two awaits.  Each   *)
(* action that receives an upstream response takes the set of responses    *)
(* the upstream may give.                                                  *)
(***************************************************************************)
GradeIds == {"", "123"}
TeamIds == {"", "T1"}

Init ==
  /\ pc = "start"
  /\ gradeId \in GradeIds
  /\ teamId \in TeamIds
  /\ matches = <<>>
  /\ chosen = NoMatch
  /\ lastBall = Null
  /\ ballsBody = NotFetched
  /\ altBody = NotFetched
  /\ calls = <<>>
  /\ responses = <<>>

\* the request arrives and the matches list is called without the gradeId
\* check
Receive_NoCheck ==
  /\ pc = "start"
  /\ calls' = Append(calls, "matches")
  /\ pc' = "awaitMatches"
  /\ UNCHANGED <<gradeId, teamId, matches, chosen, lastBall, ballsBody, altBody, responses>>

\* the request arrives and the handler goes on to the matches-list call after
\* the 400 (no return)
Receive_FallsThrough ==
  /\ pc = "start"
  /\ responses' = IF gradeId = "" THEN Append(responses, BadRequest) ELSE responses
  /\ calls' = Append(calls, "matches")
  /\ pc' = "awaitMatches"
  /\ UNCHANGED <<gradeId, teamId, matches, chosen, lastBall, ballsBody, altBody>>

\* the request arrives: the gradeId check, then the matches-list call
Receive ==
  /\ pc = "start"
  /\ IF gradeId = ""
     THEN /\ responses' = Append(responses, BadRequest)
          /\ pc' = "done"
          /\ UNCHANGED calls
     ELSE /\ calls' = Append(calls, "matches")
          /\ pc' = "awaitMatches"
          /\ UNCHANGED responses
  /\ UNCHANGED <<gradeId, teamId, matches, chosen, lastBall, ballsBody, altBody>>

\* data.matches || [] with the upcoming matches left out
matchesOf_NonUpcoming(data) ==
  IF Truthy(Get(data, "matches")) THEN nonUpcomingOf(Get(data, "matches").items) ELSE <<>>

\* data.matches || []
matchesOf(data) ==
  IF Truthy(Get(data, "matches")) THEN Get(data, "matches").items ELSE <<>>

\* the matches list arrives: the team filter and the selection, then the
\* detail call; or the pass-through without teamId; or the outer catch
MatchesReturn(R) ==
  /\ pc = "awaitMatches"
  /\ \E resp \in R :
       LET p == fetchAndParse(resp)
       IN  IF ~p.ok \/ IsNullish(p.value)
           THEN /\ responses' = Append(responses, ServerError)
                /\ pc' = "done"
                /\ UNCHANGED <<matches, chosen, calls>>
           ELSE LET ms == matchesOf(p.value)
                IN  /\ matches' = ms
                    /\ IF teamId # ""
                       THEN IF Len(teamMatchesOf(ms, teamId)) = 0
                            THEN /\ responses' = Append(responses, Ok(<<>>))
                                 /\ pc' = "done"
                                 /\ UNCHANGED <<chosen, calls>>
                            ELSE /\ chosen' = chooseMatch(ms, teamId)
                                 /\ calls' = Append(calls, "detail")
                                 /\ pc' = "awaitDetail"
                                 /\ UNCHANGED responses
                       ELSE /\ responses' = Append(responses, Ok(ms))
                            /\ pc' = "done"
                            /\ UNCHANGED <<chosen, calls>>
  /\ UNCHANGED <<gradeId, teamId, lastBall, ballsBody, altBody>>

\* the detail arrives or fails, and a failed detail ends the handler without
\* the balls call
DetailReturn_StopsOnFailure(R) ==
  /\ pc = "awaitDetail"
  /\ \E resp \in R :
       LET d == detailOf(fetchAndParse(resp))
           ch == [chosen EXCEPT !.detail = d]
       IN  IF d = Null
           THEN /\ chosen' = finish(ch, Null).chosen
                /\ responses' = Append(responses, finish(ch, Null).response)
                /\ pc' = "done"
                /\ UNCHANGED calls
           ELSE /\ chosen' = ch
                /\ calls' = Append(calls, "balls")
                /\ pc' = "awaitBalls"
                /\ UNCHANGED responses
  /\ UNCHANGED <<gradeId, teamId, matches, lastBall, ballsBody, altBody>>

\* the detail arrives or fails: chosen.detail, then the primary balls call
DetailReturn(R) ==
  /\ pc = "awaitDetail"
  /\ \E resp \in R :
       chosen' = [chosen EXCEPT !.detail = detailOf(fetchAndParse(resp))]
  /\ calls' = Append(calls, "balls")
  /\ pc' = "awaitBalls"
  /\ UNCHANGED <<gradeId, teamId, matches, lastBall, ballsBody, altBody, responses>>

\* the primary balls body arrives or fails: either the fallback call, or the
\* rest of the handler down to the response
BallsReturn(R) ==
  /\ pc = "awaitBalls"
  /\ \E resp \in R :
       LET p == fetchAndParse(resp)
           r == resolveBall(p, lastBall)
       IN  /\ ballsBody' = p
           /\ lastBall' = r.ball
           /\ IF ~r.threw /\ ~Truthy(r.ball)
              THEN /\ calls' = Append(calls, "altBalls")
                   /\ pc' = "awaitAlt"
                   /\ UNCHANGED <<chosen, responses>>
              ELSE /\ chosen' = finish(chosen, r.ball).chosen
                   /\ responses' = Append(responses, finish(chosen, r.ball).response)
                   /\ pc' = "done"
                   /\ UNCHANGED calls
  /\ UNCHANGED <<gradeId, teamId, matches, altBody>>

\* the fallback balls body arrives or fails: the rest of the handler
AltReturn(R) ==
  /\ pc = "awaitAlt"
  /\ \E resp \in R :
       LET p == fetchAndParse(resp)
           r == resolveBall(p, lastBall)
       IN  /\ altBody' = p
           /\ lastBall' = r.ball
           /\ chosen' = finish(chosen, r.ball).chosen
           /\ responses' = Append(responses, finish(chosen, r.ball).response)
           /\ pc' = "done"
  /\ UNCHANGED <<gradeId, teamId, matches, ballsBody, calls>>

(***************************************************************************)
(* The payloads the upstream may give.  Bounds are the list lengths.       *)
(***************************************************************************)
MaxMatches == 3
NumDates == 2
MaxInnings == 2
MaxBalls == 2
MaxFeedInnings == 2
MaxEntries == 2

\* the sequences over S of length at most n
SeqsUpTo(S, n) == UNION {[1..k -> S] : k \in 0..n}

\* --- matches lists -------------------------------------------------------
\* the schedule of a match that starts on the k-th date; the match of the
\* first date has a second day after every other start
ScheduleFrom(k) ==
  IF k = 1
  THEN <<[startDateTime |-> Dates[1]], [startDateTime |-> Dates[Len(Dates)]]>>
  ELSE <<[startDateTime |-> Dates[k]]>>

Schedules == {<<>>} \cup {ScheduleFrom(k) : k \in 1..NumDates}

MatchId(i) == CASE i = 1 -> "m1" [] i = 2 -> "m2" [] i = 3 -> "m3" [] OTHER -> "m4"

\* what the upstream says of one match: its teams, status and schedule
MatchFacts ==
  {[teams |-> tm, status |-> st, schedule |-> sc] :
     tm \in {<<"T1", "T2">>, <<"T2", "T3">>},
     st \in {"UPCOMING", "COMPLETED"},
     sc \in Schedules}

\* the lists of at most n matches; the id of a match is its place in the list
MatchLists(n) ==
  {[i \in 1..Len(s) |-> Match(MatchId(i), s[i].teams, s[i].status, s[i].schedule)] :
     s \in SeqsUpTo(MatchFacts, n)}

MatchesData(ms) == [t |-> "object", matches |-> Arr(ms)]

\* every list of at most MaxMatches matches
SelectMatchBodies ==
  {NetError} \cup {JsonBody(MatchesData(ms)) : ms \in MatchLists(MaxMatches)}

LiveMatch == Match("m1", <<"T1", "T2">>, "LIVE", <<[startDateTime |-> Dates[1]]>>)
OtherMatch == Match("m1", <<"T2", "T3">>, "COMPLETED", <<>>)
NextMatch == Match("m2", <<"T3", "T1">>, "UPCOMING", <<[startDateTime |-> Dates[2]]>>)

\* a few lists, and the failures of the matches-list call
PipelineMatchBodies ==
  {NetError, Garbage, JsonBody(Null), JsonBody(EmptyObj),
   JsonBody(MatchesData(<<LiveMatch>>)),
   HtmlBody(MatchesData(<<OtherMatch, NextMatch>>))}

\* one list with one match of the team
SingleMatchBodies == {JsonBody(MatchesData(<<LiveMatch>>))}

\* --- balls ---------------------------------------------------------------
Ball1 ==
  [t |-> "object", strikerParticipantId |-> Str("p1"), strikerShortName |-> Str("A Able"),
   nonStrikerParticipantId |-> Str("p2"), nonStrikerShortName |-> Str("B Baker"),
   bowlerParticipantId |-> Str("p3"), bowlerShortName |-> Str("C Cook"),
   ballTime |-> Str("2024-01-06T02:10:00Z")]

\* a ball of the legacy shape: names under striker/bowler, no non-striker
Ball2 ==
  [t |-> "object", strikerParticipantId |-> Str("p2"), striker |-> Str("B Baker"),
   bowlerParticipantId |-> Str("p1"), bowler |-> Str("A Able")]

\* a ball bowled before Ball1 by its ballTime
BallEarly ==
  [t |-> "object", strikerParticipantId |-> Str("p3"), strikerShortName |-> Str("C Cook"),
   nonStrikerParticipantId |-> Str("p1"), nonStrikerShortName |-> Str("A Able"),
   bowlerParticipantId |-> Str("p2"), bowlerShortName |-> Str("B Baker"),
   ballTime |-> Str("2024-01-06T02:05:00Z")]

BallLists(n) == {Arr(s) : s \in SeqsUpTo({Ball1, Ball2}, n)}
FlatLists(n) == {Arr(s) : s \in SeqsUpTo({Ball1, Ball2, Null}, n)}

\* the elements of an innings list of the feed
FeedInnings ==
  {[t |-> "object", balls |-> l] : l \in BallLists(MaxBalls)} \cup {EmptyObj, Null}

FeedInningsLists == {Arr(s) : s \in SeqsUpTo(FeedInnings, MaxFeedInnings)}

\* every shape of the feed: flat balls, innings, wrapped innings, wrapped balls
FeedBodies ==
  {NetError, Garbage, JsonBody(Null), JsonBody(EmptyObj)}
  \cup {JsonBody(l) : l \in FlatLists(MaxBalls)}
  \cup {JsonBody(l) : l \in FeedInningsLists}
  \cup {JsonBody([t |-> "object", innings |-> l]) : l \in FeedInningsLists}
  \cup {JsonBody([t |-> "object", balls |-> l]) : l \in FlatLists(MaxBalls)}

\* one body of each kind
FewFeedBodies ==
  {NetError, Garbage, JsonBody(EmptyObj), JsonBody(Arr(<<>>)),
   JsonBody(Arr(<<Ball2, Ball1>>)),
   JsonBody(Arr(<<[t |-> "object", balls |-> Arr(<<Ball1>>)], EmptyObj>>)),
   JsonBody([t |-> "object", innings |-> Arr(<<Null>>)]),
   JsonBody([t |-> "object", innings |-> Arr(<<[t |-> "object", balls |-> Arr(<<Ball1, Ball2>>)]>>)]),
   HtmlBody([t |-> "object", balls |-> Arr(<<Ball1>>)])}

\* --- scorecard detail ----------------------------------------------------
BatP1 ==
  [t |-> "object", participantId |-> Str("p1"), runsScored |-> Num(0), runs |-> Num(5),
   ballsFaced |-> Num(0), balls |-> Num(3)]
BatP2 ==
  [t |-> "object", participant |-> [t |-> "object", id |-> Str("p2")], runs |-> Num(7)]
BatP3 ==
  [t |-> "object", participantId |-> Str("p3"), runsScored |-> Num(4), ballsFaced |-> Num(9)]
BatP1Again ==
  [t |-> "object", participantId |-> Str("p1"), runsScored |-> Null, runs |-> Num(0),
   ballsFaced |-> Num(2)]
BatEntries == {BatP1, BatP2, BatP3, BatP1Again, Null}

BowlP3 ==
  [t |-> "object", participantId |-> Str("p3"), oversBowled |-> Str("3.2"),
   maidensBowled |-> Num(0), maidens |-> Num(1), runsConceded |-> Num(12),
   wicketsTaken |-> Num(0), wickets |-> Num(2), economy |-> Num(4),
   isBowling |-> Bool(TRUE)]
BowlP1 ==
  [t |-> "object", participant |-> [t |-> "object", id |-> Str("p1")], overs |-> Str("1.0"),
   runs |-> Num(6), noBalls |-> Num(0), wides |-> Num(2), isBowling |-> Bool(FALSE)]
BowlP3Bare == [t |-> "object", participantId |-> Str("p3")]
BowlEntries == {BowlP3, BowlP1, BowlP3Bare, Null}

Innings(teamIdOf, overs, batting, bowling) ==
  [t |-> "object", battingTeamId |-> Str(teamIdOf), oversBowled |-> overs,
   batting |-> batting, bowling |-> bowling]

\* an earlier innings, whose figures are not those of the current innings
InningsOld ==
  Innings("T2", Str("20.0"),
          Arr(<<[t |-> "object", participantId |-> Str("p1"), runsScored |-> Num(61),
                 ballsFaced |-> Num(48)]>>),
          Arr(<<[t |-> "object", participantId |-> Str("p3"), oversBowled |-> Str("4.0"),
                 noBalls |-> Num(1), wideBalls |-> Num(1)]>>))

DetailData(inns) == [t |-> "object", id |-> Str("m1"), innings |-> Arr(inns)]

\* the batting and the bowling list of an innings
FigureLists ==
  {[batting |-> Arr(bat), bowling |-> Arr(bowl)] :
     bat \in SeqsUpTo(BatEntries, MaxEntries), bowl \in SeqsUpTo(BowlEntries, MaxEntries)}

\* the second innings with every batting and bowling list
StatsDetailBodies ==
  {JsonBody(DetailData(<<InningsOld, Innings("T1", Str("12.4"), f.batting, f.bowling)>>)) :
     f \in FigureLists}

\* the elements of the innings list of the structural details
InningsElems ==
  {Null,
   Innings("T1", Str("12.4"), Arr(<<BatP1, BatP2>>), Arr(<<BowlP3>>)),
   Innings("T2", Undefined, Arr(<<Null>>), Undefined),
   Innings("T1", Str("20.0"), Undefined, Arr(<<Null, BowlP3>>))}

\* failures, null, a string, a detail without innings list, the envelopes, and every
\* innings list of at most MaxInnings elements
PipelineDetailBodies ==
  {NetError, Garbage, JsonBody(Null), JsonBody(Str("abc")),
   JsonBody([t |-> "object", id |-> Str("m1")]),
   JsonBody([t |-> "object", matches |-> Arr(<<DetailData(<<InningsOld>>)>>)]),
   HtmlBody([t |-> "object", match |-> DetailData(<<InningsOld>>)])}
  \cup {JsonBody(DetailData(inns)) : inns \in SeqsUpTo(InningsElems, MaxInnings)}

FewDetailBodies ==
  {NetError, JsonBody(DetailData(<<InningsOld, Innings("T1", Str("12.4"), Arr(<<BatP1>>), Arr(<<BowlP3>>))>>))}

(***************************************************************************)
(* Specifications.                                                         *)
(***************************************************************************)
\* the whole pipeline over a few payloads of every kind
Next ==
  \/ Receive
  \/ MatchesReturn(PipelineMatchBodies)
  \/ DetailReturn(PipelineDetailBodies)
  \/ BallsReturn(FewFeedBodies)
  \/ AltReturn(FewFeedBodies)

Spec == Init /\ [][Next]_vars

\* every matches list; few details and feeds
NextSelect ==
  \/ Receive
  \/ MatchesReturn(SelectMatchBodies)
  \/ DetailReturn({NetError})
  \/ BallsReturn({JsonBody(Arr(<<>>)), JsonBody(Arr(<<Ball1>>))})
  \/ AltReturn({NetError})

SpecSelect == Init /\ [][NextSelect]_vars

\* every primary feed; few matches, details and fallback feeds
NextBalls ==
  \/ Receive
  \/ MatchesReturn(SingleMatchBodies)
  \/ DetailReturn(FewDetailBodies)
  \/ BallsReturn(FeedBodies)
  \/ AltReturn(FewFeedBodies)

SpecBalls == Init /\ [][NextBalls]_vars

\* every batting and bowling list of the current innings
NextStats ==
  \/ Receive
  \/ MatchesReturn(SingleMatchBodies)
  \/ DetailReturn(StatsDetailBodies)
  \/ BallsReturn({JsonBody(Arr(<<>>)), JsonBody(Arr(<<Ball1>>)), JsonBody(Arr(<<Ball1, Ball2>>))})
  \/ AltReturn({NetError, JsonBody(Arr(<<Ball2>>))})

SpecStats == Init /\ [][NextStats]_vars

\* --- one sequence of balls in every shape of the feed --------------------
FeedInningsOf(s) == [t |-> "object", balls |-> Arr(s)]

\* the innings lists that end with the innings of the sequence s: alone, or
\* after an earlier innings
InningsListsOf(s) ==
  {Arr(<<FeedInningsOf(s)>>),
   Arr(<<FeedInningsOf(<<>>), FeedInningsOf(s)>>),
   Arr(<<FeedInningsOf(<<Ball2, Ball1>>), FeedInningsOf(s)>>)}

FlatEncoding(s) == Arr(s)
InningsEncodings(s) == InningsListsOf(s)
WrappedInningsEncodings(s) == {[t |-> "object", innings |-> l] : l \in InningsListsOf(s)}
WrappedBallsEncoding(s) == [t |-> "object", balls |-> Arr(s)]

\* the four encodings of the deliveries s
Encodings(s) ==
  {FlatEncoding(s), WrappedBallsEncoding(s)}
  \cup InningsEncodings(s) \cup WrappedInningsEncodings(s)

BallSeqs == SeqsUpTo({Ball1, Ball2, BallEarly}, MaxBalls)

\* every sequence of at most MaxBalls balls in every encoding
ShapeBodies ==
  {NetError} \cup {JsonBody(e) : e \in UNION {Encodings(s) : s \in BallSeqs}}

\* the same sequences in every encoding, on the primary and on the fallback
NextShapes ==
  \/ Receive
  \/ MatchesReturn(SingleMatchBodies)
  \/ DetailReturn(FewDetailBodies)
  \/ BallsReturn(ShapeBodies)
  \/ AltReturn(ShapeBodies)

SpecShapes == Init /\ [][NextShapes]_vars

\* the pipeline when every upstream call eventually returns or fails and the
\* event loop then runs the continuation of the handler
SpecLive == Init /\ [][Next]_vars /\ WF_vars(Next)

(***************************************************************************)
(* Concurrent requests.  The handler keeps its state in the locals of one  *)
(* invocation (gradeId, teamId, matches, chosen, lastBall) and the module  *)
(* has no variable a handler writes; under SpecConc every variable holds,  *)
(* for each request in flight, the value it holds for the single request   *)
(* of the other specifications.  A step is the code of one request between *)
(* two of its awaits; the steps of the requests interleave freely.         *)
(***************************************************************************)
Reqs == {"a", "b"}

InitConc ==
  /\ pc = [r \in Reqs |-> "start"]
  /\ gradeId \in [Reqs -> GradeIds]
  /\ teamId \in [Reqs -> TeamIds]
  /\ matches = [r \in Reqs |-> <<>>]
  /\ chosen = [r \in Reqs |-> NoMatch]
  /\ lastBall = [r \in Reqs |-> Null]
  /\ ballsBody = [r \in Reqs |-> NotFetched]
  /\ altBody = [r \in Reqs |-> NotFetched]
  /\ calls = [r \in Reqs |-> <<>>]
  /\ responses = [r \in Reqs |-> <<>>]

\* request r arrives: the gradeId check, then its matches-list call
ReceiveOf(r) ==
  /\ pc[r] = "start"
  /\ IF gradeId[r] = ""
     THEN /\ responses' = [responses EXCEPT ![r] = Append(@, BadRequest)]
          /\ pc' = [pc EXCEPT ![r] = "done"]
          /\ UNCHANGED calls
     ELSE /\ calls' = [calls EXCEPT ![r] = Append(@, "matches")]
          /\ pc' = [pc EXCEPT ![r] = "awaitMatches"]
          /\ UNCHANGED responses
  /\ UNCHANGED <<gradeId, teamId, matches, chosen, lastBall, ballsBody, altBody>>

\* the matches list of request r arrives
MatchesReturnOf(r, R) ==
  /\ pc[r] = "awaitMatches"
  /\ \E resp \in R :
       LET p == fetchAndParse(resp)
       IN  IF ~p.ok \/ IsNullish(p.value)
           THEN /\ responses' = [responses EXCEPT ![r] = Append(@, ServerError)]
                /\ pc' = [pc EXCEPT ![r] = "done"]
                /\ UNCHANGED <<matches, chosen, calls>>
           ELSE LET ms == matchesOf(p.value)
                IN  /\ matches' = [matches EXCEPT ![r] = ms]
                    /\ IF teamId[r] # ""
                       THEN IF Len(teamMatchesOf(ms, teamId[r])) = 0
                            THEN /\ responses' = [responses EXCEPT ![r] = Append(@, Ok(<<>>))]
                                 /\ pc' = [pc EXCEPT ![r] = "done"]
                                 /\ UNCHANGED <<chosen, calls>>
                            ELSE /\ chosen' = [chosen EXCEPT ![r] = chooseMatch(ms, teamId[r])]
                                 /\ calls' = [calls EXCEPT ![r] = Append(@, "detail")]
                                 /\ pc' = [pc EXCEPT ![r] = "awaitDetail"]
                                 /\ UNCHANGED responses
                       ELSE /\ responses' = [responses EXCEPT ![r] = Append(@, Ok(ms))]
                            /\ pc' = [pc EXCEPT ![r] = "done"]
                            /\ UNCHANGED <<chosen, calls>>
  /\ UNCHANGED <<gradeId, teamId, lastBall, ballsBody, altBody>>

\* the detail of request r arrives or fails
DetailReturnOf(r, R) ==
  /\ pc[r] = "awaitDetail"
  /\ \E resp \in R :
       chosen' = [chosen EXCEPT ![r].detail = detailOf(fetchAndParse(resp))]
  /\ calls' = [calls EXCEPT ![r] = Append(@, "balls")]
  /\ pc' = [pc EXCEPT ![r] = "awaitBalls"]
  /\ UNCHANGED <<gradeId, teamId, matches, lastBall, ballsBody, altBody, responses>>

\* a slip: lastBall is a variable of the module, which a request finds as
\* another request left it
BallsReturnOf_SharedBall(r, R) ==
  /\ pc[r] = "awaitBalls"
  /\ \E resp \in R : \E q \in Reqs :
       LET p == fetchAndParse(resp)
           b == resolveBall(p, lastBall[q])
       IN  /\ ballsBody' = [ballsBody EXCEPT ![r] = p]
           /\ lastBall' = [lastBall EXCEPT ![r] = b.ball]
           /\ IF ~b.threw /\ ~Truthy(b.ball)
              THEN /\ calls' = [calls EXCEPT ![r] = Append(@, "altBalls")]
                   /\ pc' = [pc EXCEPT ![r] = "awaitAlt"]
                   /\ UNCHANGED <<chosen, responses>>
              ELSE /\ chosen' = [chosen EXCEPT ![r] = finish(chosen[r], b.ball).chosen]
                   /\ responses' =
                        [responses EXCEPT ![r] = Append(@, finish(chosen[r], b.ball).response)]
                   /\ pc' = [pc EXCEPT ![r] = "done"]
                   /\ UNCHANGED calls
  /\ UNCHANGED <<gradeId, teamId, matches, altBody>>

\* the primary balls body of request r arrives or fails
BallsReturnOf(r, R) ==
  /\ pc[r] = "awaitBalls"
  /\ \E resp \in R :
       LET p == fetchAndParse(resp)
           b == resolveBall(p, lastBall[r])
       IN  /\ ballsBody' = [ballsBody EXCEPT ![r] = p]
           /\ lastBall' = [lastBall EXCEPT ![r] = b.ball]
           /\ IF ~b.threw /\ ~Truthy(b.ball)
              THEN /\ calls' = [calls EXCEPT ![r] = Append(@, "altBalls")]
                   /\ pc' = [pc EXCEPT ![r] = "awaitAlt"]
                   /\ UNCHANGED <<chosen, responses>>
              ELSE /\ chosen' = [chosen EXCEPT ![r] = finish(chosen[r], b.ball).chosen]
                   /\ responses' =
                        [responses EXCEPT ![r] = Append(@, finish(chosen[r], b.ball).response)]
                   /\ pc' = [pc EXCEPT ![r] = "done"]
                   /\ UNCHANGED calls
  /\ UNCHANGED <<gradeId, teamId, matches, altBody>>

\* the fallback balls body of request r arrives or fails
AltReturnOf(r, R) ==
  /\ pc[r] = "awaitAlt"
  /\ \E resp \in R :
       LET p == fetchAndParse(resp)
           b == resolveBall(p, lastBall[r])
       IN  /\ altBody' = [altBody EXCEPT ![r] = p]
           /\ lastBall' = [lastBall EXCEPT ![r] = b.ball]
           /\ chosen' = [chosen EXCEPT ![r] = finish(chosen[r], b.ball).chosen]
           /\ responses' =
                [responses EXCEPT ![r] = Append(@, finish(chosen[r], b.ball).response)]
           /\ pc' = [pc EXCEPT ![r] = "done"]
  /\ UNCHANGED <<gradeId, teamId, matches, ballsBody, calls>>

\* what the upstream gives the concurrent requests
ConcMatchBodies ==
  {JsonBody(MatchesData(<<LiveMatch>>)), JsonBody(MatchesData(<<OtherMatch, NextMatch>>))}
ConcDetailBodies == FewDetailBodies
ConcBallsBodies == {NetError, JsonBody(Arr(<<>>)), JsonBody(Arr(<<Ball1>>))}
ConcAltBodies == {NetError, JsonBody(Arr(<<Ball2>>))}

\* any request takes its next step
NextConc ==
  \E r \in Reqs :
    \/ ReceiveOf(r)
    \/ MatchesReturnOf(r, ConcMatchBodies)
    \/ DetailReturnOf(r, ConcDetailBodies)
    \/ BallsReturnOf(r, ConcBallsBodies)
    \/ AltReturnOf(r, ConcAltBodies)

SpecConc == InitConc /\ [][NextConc]_vars

(***************************************************************************)
(* Properties.                                                             *)
(***************************************************************************)
Count(s, x) == Cardinality({i \in 1..Len(s) : s[i] = x})

\* the handler has ended after it had chosen a match
EndedWithChosen == pc = "done" /\ chosen # NoMatch

\* the response carries the chosen match
CarriesChosen ==
  /\ EndedWithChosen
  /\ Len(responses) = 1
  /\ responses[1].status = 200
  /\ Len(responses[1].matches) = 1

Sent == responses[1].matches[1]

\* C1: once a match is chosen, the response is HTTP 200 {matches: [chosen]}
\* and never HTTP 500, whatever the detail, the ball feeds, the overs
\* annotation and the player statistics do.
C1_AlwaysBestEffort ==
  EndedWithChosen => responses = <<Ok(<<chosen>>)>>

\* the feed payload, normalized by the four shapes of the feed, has no last
\* ball: no innings, or a last innings without a balls list, with an empty
\* one, or with one that ends in null
NormalizedFeed(v) ==
  IF IsArray(v) /\ v.items # <<>> /\ IsObject(v.items[1]) /\ "balls" \in DOMAIN v.items[1]
  THEN v.items
  ELSE IF IsArray(v) THEN <<[t |-> "object", balls |-> v]>>
  ELSE IF IsObject(v) /\ "innings" \in DOMAIN v THEN v.innings.items
  ELSE IF IsObject(v) /\ "balls" \in DOMAIN v THEN <<[t |-> "object", balls |-> v.balls]>>
  ELSE <<>>

FeedBalls(inn) ==
  IF IsObject(inn) /\ "balls" \in DOMAIN inn THEN inn.balls.items ELSE <<>>

NormalizesWithoutError(v) ==
  NormalizedFeed(v) = <<>> \/ ~IsNullish(NormalizedFeed(v)[Len(NormalizedFeed(v))])

YieldsBall(v) ==
  /\ NormalizedFeed(v) # <<>>
  /\ LET balls == FeedBalls(NormalizedFeed(v)[Len(NormalizedFeed(v))])
     IN  balls # <<>> /\ IsObject(balls[Len(balls)])

PrimaryYieldsBall == ballsBody.ok /\ YieldsBall(ballsBody.value)
PrimaryYieldsNoBall ==
  ballsBody.ok /\ NormalizesWithoutError(ballsBody.value) /\ ~YieldsBall(ballsBody.value)
AltYieldsBall == altBody.ok /\ YieldsBall(altBody.value)

\* C2: when the primary balls payload normalizes to no last ball the fallback
\* endpoint is called exactly once; when it yields a last ball the fallback is
\* called zero times; when the fallback yields no ball either, the chosen
\* match of the response has currentPlayers = null.
C2_FallbackExactlyOnce ==
  EndedWithChosen =>
    /\ PrimaryYieldsNoBall => Count(calls, "altBalls") = 1
    /\ PrimaryYieldsBall => Count(calls, "altBalls") = 0
    /\ (PrimaryYieldsNoBall /\ ~AltYieldsBall /\ CarriesChosen)
         => Sent.currentPlayers = Null

C2_Witness ==
  /\ CarriesChosen
  /\ PrimaryYieldsNoBall
  /\ ~AltYieldsBall
  /\ Count(calls, "altBalls") = 1
  /\ ballsBody.value # Arr(<<>>)
  /\ Sent.currentPlayers = Null

\* C3: in a response that carries a chosen match, currentPlayers is populated
\* exactly when lastBall is, which is exactly when a ball was resolved from
\* the primary or the fallback feed; otherwise both are null.
C3_PlayersIffLastBall ==
  CarriesChosen =>
    \/ /\ PrimaryYieldsBall \/ AltYieldsBall
       /\ IsObject(Sent.lastBall)
       /\ IsObject(Sent.currentPlayers)
    \/ /\ ~(PrimaryYieldsBall \/ AltYieldsBall)
       /\ Sent.lastBall = Null
       /\ Sent.currentPlayers = Null

C3_Witness ==
  /\ CarriesChosen
  /\ AltYieldsBall
  /\ Sent.detail = Null
  /\ IsObject(Sent.lastBall)
  /\ IsObject(Sent.currentPlayers)

\* the places of the upstream list whose match has the requested team
TeamPlaces == {i \in 1..Len(matches) : \E k \in 1..Len(matches[i].teams) :
                                          matches[i].teams[k].id = teamId}

\* the handler has chosen a match of a fetched list
HasChosen == chosen # NoMatch

\* C4: if a match of the team is not UPCOMING the chosen match is not
\* UPCOMING, whatever the start times; an UPCOMING match is chosen only when
\* every match of the team is UPCOMING.
C4_PrefersNonUpcoming ==
  HasChosen =>
    /\ (\E i \in TeamPlaces : matches[i].status # "UPCOMING")
         => chosen.status # "UPCOMING"
    /\ chosen.status = "UPCOMING"
         => \A i \in TeamPlaces : matches[i].status = "UPCOMING"

\* a non-upcoming match is chosen although an upcoming match of the team
\* starts later
C4_Witness ==
  /\ HasChosen
  /\ chosen.status # "UPCOMING"
  /\ chosen.matchSchedule = <<>>
  /\ \E i \in TeamPlaces : /\ matches[i].status = "UPCOMING"
                           /\ matches[i].matchSchedule # <<>>

\* the candidates: the non-upcoming matches of the team, or all its matches
CandidatePlaces ==
  IF \E i \in TeamPlaces : matches[i].status # "UPCOMING"
  THEN {i \in TeamPlaces : matches[i].status # "UPCOMING"}
  ELSE TeamPlaces

\* the rank of a candidate: its first start, or below every start without one
StartRank(m) ==
  IF m.matchSchedule = <<>> THEN 0
  ELSE CHOOSE k \in 1..Len(Dates) : Dates[k] = m.matchSchedule[1].startDateTime

LatestPlaces ==
  {i \in CandidatePlaces :
     \A j \in CandidatePlaces : StartRank(matches[j]) <= StartRank(matches[i])}

\* C5: the chosen match is the candidate with the latest first start, a
\* candidate without schedule ranking below every scheduled one; among
\* candidates that tie, the first in the upstream order.
C5_LatestStartFirstInTie ==
  HasChosen =>
    \E i \in LatestPlaces :
      /\ chosen.id = matches[i].id
      /\ \A j \in LatestPlaces : i <= j

\* a tie between two candidates with the latest start, after a candidate
\* without schedule
C5_Witness ==
  /\ HasChosen
  /\ Cardinality(LatestPlaces) >= 2
  /\ chosen.matchSchedule # <<>>
  /\ \E i \in CandidatePlaces : /\ matches[i].matchSchedule = <<>>
                                /\ \A j \in LatestPlaces : i < j

\* the match without the properties the handler adds
Upstream(m) ==
  [id |-> m.id, status |-> m.status, matchSchedule |-> m.matchSchedule,
   teamIds |-> [k \in 1..Len(m.teams) |-> m.teams[k].id]]

\* C6: a successful response to a request with teamId has exactly one match
\* if a match of the upstream list has the team and none otherwise; the match
\* is one of the upstream list and has the team.
C6_OneMatchOfTheTeam ==
  (pc = "done" /\ teamId # "" /\ Len(responses) = 1 /\ responses[1].status = 200) =>
    IF TeamPlaces # {}
    THEN /\ Len(responses[1].matches) = 1
         /\ \E i \in TeamPlaces : Upstream(responses[1].matches[1]) = Upstream(matches[i])
    ELSE responses[1].matches = <<>>

\* the team plays one match of a list that also has matches of other teams
C6_Witness ==
  /\ pc = "done" /\ teamId # "" /\ Len(responses) = 1 /\ responses[1].status = 200
  /\ Len(responses[1].matches) = 1
  /\ Cardinality(TeamPlaces) = 1
  /\ Len(matches) = 3
  /\ 1 \notin TeamPlaces

\* the innings list of the detail of the response (empty without one)
SentInnings ==
  IF IsObject(Sent.detail) /\ "innings" \in DOMAIN Sent.detail
     /\ IsArray(Sent.detail.innings)
  THEN Sent.detail.innings.items
  ELSE <<>>

\* the overs of a team by the scorecard: the oversBowled of its innings, "0.0"
\* without innings of the team or without any detail
ScorecardOvers(tid) ==
  LET own == {i \in 1..Len(SentInnings) :
                /\ IsObject(SentInnings[i])
                /\ SentInnings[i].battingTeamId = Str(tid)
                /\ SentInnings[i].oversBowled # Undefined}
  IN  IF own = {} THEN Str("0.0")
      ELSE SentInnings[CHOOSE i \in own : \A j \in own : i <= j].oversBowled

\* C7: in a response that carries a chosen match every team has oversBowled:
\* the oversBowled of the innings the team batted, and "0.0" when it has none
\* or when there is no detail at all.
C7_EveryTeamHasOvers ==
  CarriesChosen =>
    \A k \in 1..Len(Sent.teams) :
      Sent.teams[k].oversBowled = ScorecardOvers(Sent.teams[k].id)

\* --- the figures of the last innings of the detail -----------------------
\* a last ball was resolved and the detail has a last innings to look in
PlayersWithInnings ==
  /\ CarriesChosen
  /\ IsObject(Sent.currentPlayers)
  /\ SentInnings # <<>>
  /\ IsObject(SentInnings[Len(SentInnings)])

CurrentInnings == SentInnings[Len(SentInnings)]

FigureList(name) ==
  IF name \in DOMAIN CurrentInnings /\ IsArray(CurrentInnings[name])
  THEN CurrentInnings[name].items
  ELSE <<>>

\* the entry carries the participant id, flat or nested
HasId(e, id) ==
  /\ IsObject(e)
  /\ \/ "participantId" \in DOMAIN e /\ e.participantId = id
     \/ /\ "participant" \in DOMAIN e
        /\ IsObject(e.participant)
        /\ "id" \in DOMAIN e.participant
        /\ e.participant.id = id

\* the place of the first entry of the participant, 0 without one
FirstHit(list, id) ==
  IF \E i \in 1..Len(list) : HasId(list[i], id)
  THEN CHOOSE i \in 1..Len(list) :
         HasId(list[i], id) /\ \A j \in 1..(i - 1) : ~HasId(list[j], id)
  ELSE 0

\* the lookup comes back: no null element is read before it ends
LookupReturns(list, id) ==
  \A j \in 1..Len(list) :
    IsNullish(list[j]) => (FirstHit(list, id) # 0 /\ FirstHit(list, id) < j)

Recorded(e, f) == f \in DOMAIN e /\ ~IsNullish(e[f])

\* the value under the primary name when recorded, else under the alias,
\* else the default
Figure(e, primary, alias, dflt) ==
  IF Recorded(e, primary) THEN e[primary]
  ELSE IF Recorded(e, alias) THEN e[alias]
  ELSE dflt

BattingAsClaimed(id, runs, balls) ==
  LET list == FigureList("batting")
      hit == FirstHit(list, id)
  IN  IF hit = 0 THEN runs = Null /\ balls = Null
      ELSE /\ runs = Figure(list[hit], "runsScored", "runs", Null)
           /\ balls = Figure(list[hit], "ballsFaced", "balls", Null)

StrikerLooked == LookupReturns(FigureList("batting"), Sent.currentPlayers.strikerId)
NonStrikerLooked ==
  StrikerLooked /\ LookupReturns(FigureList("batting"), Sent.currentPlayers.nonStrikerId)
BowlerLooked ==
  NonStrikerLooked /\ LookupReturns(FigureList("batting"), Sent.currentPlayers.bowlerId)
BowlingLooked ==
  BowlerLooked /\ LookupReturns(FigureList("bowling"), Sent.currentPlayers.bowlerId)

\* C8: with a last ball and a detail with innings, each batting lookup that
\* comes back gives null runs and balls (never 0) without an entry of the
\* participant in the batting list of the last innings, and with an entry
\* runsScored when recorded else runs, ballsFaced when recorded else balls: a
\* recorded 0 stays 0.
C8_BattingFigures ==
  PlayersWithInnings =>
    LET cp == Sent.currentPlayers
    IN  /\ StrikerLooked => BattingAsClaimed(cp.strikerId, cp.strikerRuns, cp.strikerBalls)
        /\ NonStrikerLooked =>
             BattingAsClaimed(cp.nonStrikerId, cp.nonStrikerRuns, cp.nonStrikerBalls)
        /\ BowlerLooked => BattingAsClaimed(cp.bowlerId, cp.bowlerRuns, cp.bowlerBalls)

\* the striker has a recorded 0 under runsScored beside another value under
\* runs, and the non-striker has no entry
C8_Witness ==
  /\ PlayersWithInnings
  /\ BowlerLooked
  /\ LET list == FigureList("batting")
         cp == Sent.currentPlayers
     IN  /\ FirstHit(list, cp.strikerId) # 0
         /\ Recorded(list[FirstHit(list, cp.strikerId)], "runsScored")
         /\ list[FirstHit(list, cp.strikerId)].runsScored = Num(0)
         /\ Recorded(list[FirstHit(list, cp.strikerId)], "runs")
         /\ list[FirstHit(list, cp.strikerId)].runs # Num(0)
         /\ cp.strikerRuns = Num(0)
         /\ FirstHit(list, cp.nonStrikerId) = 0
         /\ cp.nonStrikerRuns = Null

BowlingAsClaimed(cp) ==
  LET list == FigureList("bowling")
      hit == FirstHit(list, cp.bowlerId)
  IN  IF hit = 0 THEN \A f \in BowlingFields : cp[f] = Null
      ELSE /\ cp.bowlerNoBalls = Figure(list[hit], "noBalls", "noBalls", Num(0))
           /\ cp.bowlerWides = Figure(list[hit], "wideBalls", "wides", Num(0))
           /\ cp.bowlerOvers = Figure(list[hit], "oversBowled", "overs", Null)
           /\ cp.bowlerMaidens = Figure(list[hit], "maidensBowled", "maidens", Null)
           /\ cp.bowlerRunsConceded = Figure(list[hit], "runsConceded", "runs", Null)
           /\ cp.bowlerWickets = Figure(list[hit], "wicketsTaken", "wickets", Null)
           /\ cp.bowlerEconomy = Figure(list[hit], "economy", "economy", Null)
           /\ cp.isBowling = Figure(list[hit], "isBowling", "isBowling", Null)

\* C9: with a last ball and a detail with innings, the bowling lookup that
\* comes back gives eight null bowling fields without an entry of the bowler
\* in the bowling list of the last innings; with an entry, bowlerNoBalls and
\* bowlerWides are 0 when missing and every other field is the value of the
\* entry, or null when missing.
C9_BowlingFigures ==
  (PlayersWithInnings /\ BowlingLooked) => BowlingAsClaimed(Sent.currentPlayers)

\* the entry of the bowler has neither no-balls nor wides nor an economy
C9_Witness ==
  /\ PlayersWithInnings
  /\ BowlingLooked
  /\ LET list == FigureList("bowling")
         cp == Sent.currentPlayers
     IN  /\ FirstHit(list, cp.bowlerId) # 0
         /\ ~Recorded(list[FirstHit(list, cp.bowlerId)], "noBalls")
         /\ ~Recorded(list[FirstHit(list, cp.bowlerId)], "wides")
         /\ ~Recorded(list[FirstHit(list, cp.bowlerId)], "economy")
         /\ cp.bowlerNoBalls = Num(0)
         /\ cp.bowlerWides = Num(0)
         /\ cp.bowlerEconomy = Null

\* a 0 of the field is a 0 of the scorecard: some entry of the last innings
\* records 0 under one of the names
ZeroRecorded(name, fields) ==
  /\ SentInnings # <<>>
  /\ IsObject(SentInnings[Len(SentInnings)])
  /\ \E i \in 1..Len(FigureList(name)) : \E f \in fields :
        /\ IsObject(FigureList(name)[i])
        /\ Recorded(FigureList(name)[i], f)
        /\ FigureList(name)[i][f] = Num(0)

\* C10: whenever currentPlayers is populated every statistic field is present,
\* with null for a statistic without recorded value, and is 0 only for a
\* recorded 0 (or the default of no-balls and wides); also when the detail is
\* null or has no innings.
C10_AbsentStatIsNull ==
  (CarriesChosen /\ IsObject(Sent.currentPlayers)) =>
    LET cp == Sent.currentPlayers
    IN  /\ \A f \in StatFields \cup BowlingFields : cp[f] # Undefined
        /\ \A f \in {"strikerRuns", "nonStrikerRuns", "bowlerRuns"} :
             cp[f] = Num(0) => ZeroRecorded("batting", {"runsScored", "runs"})
        /\ \A f \in {"strikerBalls", "nonStrikerBalls", "bowlerBalls"} :
             cp[f] = Num(0) => ZeroRecorded("batting", {"ballsFaced", "balls"})
        /\ cp.bowlerMaidens = Num(0) => ZeroRecorded("bowling", {"maidensBowled", "maidens"})
        /\ cp.bowlerWickets = Num(0) => ZeroRecorded("bowling", {"wicketsTaken", "wickets"})
        /\ cp.bowlerRunsConceded = Num(0) => ZeroRecorded("bowling", {"runsConceded", "runs"})

\* the final delivery of a sequence of balls, null for the empty sequence
FinalDelivery(s) == IF s = <<>> THEN Null ELSE s[Len(s)]

\* the primary body has been received and the fallback has not
AfterPrimaryOnly == pc \in {"awaitAlt", "done"} /\ ballsBody.ok /\ altBody = NotFetched

\* the fallback body has been received
AfterFallback == pc = "done" /\ altBody.ok

\* C11: the flat, innings, wrapped-innings and wrapped-balls encodings of the
\* same sequence of balls all give the same extracted last ball, the final
\* delivery of the sequence, on the primary and on the fallback endpoint.
C11_ShapeInvariant ==
  \A s \in BallSeqs :
    /\ (AfterPrimaryOnly /\ ballsBody.value \in Encodings(s))
         => lastBall = FinalDelivery(s)
    /\ (AfterFallback /\ altBody.value \in Encodings(s))
         => lastBall = FinalDelivery(s)

\* the fallback gives the deliveries as wrapped balls after the primary gave
\* an empty innings list entry
C11_Witness ==
  /\ AfterFallback
  /\ ballsBody.ok
  /\ ballsBody.value \in InningsEncodings(<<>>)
  /\ altBody.value = WrappedBallsEncoding(<<Ball1, Ball2>>)
  /\ lastBall = Ball2
  /\ CarriesChosen
  /\ Sent.lastBall = Ball2


\* the matches-list responses that are a failed fetch: the network fails, or
\* the body is neither JSON nor a page with window.Dto
FailedFetches == {NetError, Garbage}

\* once the request is done no call and no response is added
DoneIsFinal == pc = "done" => UNCHANGED <<calls, responses>>

\* C12: when the matches-list fetch fails (network failure, or a body that
\* is neither JSON nor an embedded window.Dto) the response is HTTP 500 with
\* the error message, and no detail or ball-feed call is made.
C12_FailedMatchesFetchIs500 ==
  [][/\ \A resp \in FailedFetches :
          MatchesReturn({resp})
            => /\ responses' = <<ServerError>>
               /\ calls' = <<"matches">>
               /\ pc' = "done"
     /\ DoneIsFinal]_vars

\* a request with gradeId whose only call was the matches list and whose
\* response is the 500
C12_Witness ==
  /\ pc = "done"
  /\ gradeId # ""
  /\ calls = <<"matches">>
  /\ responses = <<ServerError>>
  /\ responses[1].status = 500
  /\ responses[1].error # ""


\* C13: a request without gradeId, or with an empty one, is answered with
\* HTTP 400 and the error "Missing gradeId parameter", and makes no upstream
\* call of any kind, with or without teamId.
C13_MissingGradeIdIs400 ==
  gradeId = ""
    => /\ calls = <<>>
       /\ pc \in {"start", "done"}
       /\ pc = "start" => responses = <<>>
       /\ pc = "done"
            => /\ responses = <<BadRequest>>
               /\ responses[1].status = 400
               /\ responses[1].error = "Missing gradeId parameter"

\* an answered request without gradeId and with a teamId
C13_Witness ==
  /\ pc = "done"
  /\ gradeId = ""
  /\ teamId # ""
  /\ responses = <<BadRequest>>
  /\ calls = <<>>


\* the matches-list responses that carry a list
ListBodies ==
  {resp \in PipelineMatchBodies :
     fetchAndParse(resp).ok /\ IsArray(Get(fetchAndParse(resp).value, "matches"))}

\* the list of a matches-list response, as the upstream gave it
UpstreamList(resp) == Get(fetchAndParse(resp).value, "matches").items

\* no match of the list ms has a property the handler adds
NotEnriched(ms) ==
  \A i \in 1..Len(ms) :
    /\ ms[i].detail = Undefined
    /\ ms[i].lastBall = Undefined
    /\ ms[i].currentPlayers = Undefined
    /\ \A j \in 1..Len(ms[i].teams) : ms[i].teams[j].oversBowled = Undefined

\* C14: a request with gradeId and without teamId is answered with HTTP 200
\* and exactly the upstream list of matches, in the upstream order, unmodified
\* and without any enrichment field, after exactly one upstream call.
C14_PassThrough ==
  [][/\ teamId = ""
          => \A resp \in ListBodies :
               MatchesReturn({resp})
                 => /\ responses' = <<Ok(UpstreamList(resp))>>
                    /\ responses'[1].status = 200
                    /\ NotEnriched(responses'[1].matches)
                    /\ calls' = <<"matches">>
                    /\ pc' = "done"
     /\ pc = "done" => UNCHANGED <<calls, responses>>]_vars

\* a list of two matches passed through in the upstream order
C14_Witness ==
  /\ pc = "done"
  /\ gradeId # ""
  /\ teamId = ""
  /\ calls = <<"matches">>
  /\ responses = <<Ok(<<OtherMatch, NextMatch>>)>>


\* the upstream calls in the order of the handler
CallOrder == <<"matches", "detail", "balls", "altBalls">>

\* s is the beginning of t
IsPrefix(s, t) == Len(s) <= Len(t) /\ \A i \in 1..Len(s) : s[i] = t[i]

\* the call whose answer the handler awaits, if any
Awaited ==
  CASE pc = "awaitMatches" -> <<"matches">>
    [] pc = "awaitDetail" -> <<"detail">>
    [] pc = "awaitBalls" -> <<"balls">>
    [] pc = "awaitAlt" -> <<"altBalls">>
    [] OTHER -> <<>>

\* the calls are made in order, each at most once; the last call made is the
\* one awaited and every earlier call has completed
CallsInOrder ==
  /\ IsPrefix(calls, CallOrder)
  /\ Awaited # <<>> => (calls # <<>> /\ calls[Len(calls)] = Awaited[1])
  /\ gradeId # "" /\ pc # "start" => Count(calls, "matches") = 1

\* the calls of a finished request
CallsWhenDone ==
  pc = "done" =>
    /\ HasChosen
         => /\ Count(calls, "detail") = 1
            /\ Count(calls, "balls") = 1
            /\ Count(calls, "altBalls") <= 1
    /\ ~HasChosen
         => /\ Count(calls, "detail") = 0
            /\ Count(calls, "balls") = 0
            /\ Count(calls, "altBalls") = 0

\* a call is made only by the step that receives the answer of the previous
\* call (or the request), one call at a time
OneCallAtATime ==
  calls' # calls
    => /\ pc = "start" \/ Awaited # <<>>
       /\ \E c \in {"matches", "detail", "balls", "altBalls"} : calls' = Append(calls, c)
       /\ Awaited # <<>> => calls[Len(calls)] = Awaited[1]

\* C15: the upstream calls are made one after the other in the order matches
\* list, detail, primary balls, fallback balls: the matches list once; once a
\* match is chosen the detail once and the primary balls once, also when the
\* detail call failed, and the fallback at most once; no call is made before
\* the previous one has completed, and no detail or balls call is made when no
\* match is chosen.
C15_CallsSequentialInOrder ==
  /\ [](CallsInOrder /\ CallsWhenDone)
  /\ [][OneCallAtATime]_vars

\* a finished request whose detail call failed and which made all four calls
C15_Witness ==
  /\ pc = "done"
  /\ HasChosen
  /\ chosen.detail = Null
  /\ calls = CallOrder
  /\ Len(responses) = 1


\* a lookup of the figures raised an error: a null element of the batting or
\* bowling list was read
LookupFailed == PlayersWithInnings /\ ~BowlingLooked

\* the statistic fields the handler could not derive: those of the lookup
\* that raised the error and of the lookups after it
NotDerived ==
  IF ~StrikerLooked THEN StatFields \cup BowlingFields
  ELSE IF ~NonStrikerLooked
  THEN {"nonStrikerRuns", "nonStrikerBalls", "bowlerRuns", "bowlerBalls"} \cup BowlingFields
  ELSE IF ~BowlerLooked THEN {"bowlerRuns", "bowlerBalls"} \cup BowlingFields
  ELSE BowlingFields

\* C17: when a last ball is resolved and a lookup of the batting or bowling
\* figures raises an error (a null element in the batting or bowling list of
\* the last innings), the response is still HTTP 200 with the chosen match,
\* and the statistic fields of currentPlayers that could not be derived are
\* null.
C17_LookupErrorGivesNulls ==
  (EndedWithChosen /\ Truthy(lastBall)) =>
    /\ CarriesChosen
    /\ LookupFailed => \A f \in NotDerived : Sent.currentPlayers[f] = Null


\* the body the last ball was taken from: the fallback body once it is
\* received, else the primary body
LastFeed == IF altBody = NotFetched THEN ballsBody ELSE altBody

\* the feed has been received and normalizes without error
FeedNormalized ==
  /\ pc \in {"awaitAlt", "done"}
  /\ LastFeed.ok
  /\ NormalizesWithoutError(LastFeed.value)

\* the balls of the last innings of the normalized feed, in upstream order
LastInningsBalls ==
  LET inn == NormalizedFeed(LastFeed.value)
  IN  IF inn = <<>> THEN <<>> ELSE FeedBalls(inn[Len(inn)])

\* C18: the extracted last ball is the last element of the balls list of the
\* last innings of the normalized payload, in upstream order, whatever the
\* ball times; when the last innings has no balls there is no last ball, also
\* when an earlier innings has balls.
C18_LastBallOfLastInnings ==
  FeedNormalized =>
    IF LastInningsBalls = <<>> THEN lastBall = Null
    ELSE lastBall = LastInningsBalls[Len(LastInningsBalls)]

\* the last ball in upstream order was bowled before the ball it follows
C18_Witness ==
  /\ FeedNormalized
  /\ pc = "done"
  /\ LastInningsBalls = <<Ball1, BallEarly>>
  /\ Len(NormalizedFeed(LastFeed.value)) = 2
  /\ lastBall = BallEarly
  /\ CarriesChosen
  /\ Sent.lastBall = BallEarly


\* the primary balls call has failed: the fetch or the parse failed, or the
\* normalization of its payload raised an error
PrimaryFailed ==
  /\ pc \in {"awaitAlt", "done"}
  /\ ballsBody # NotFetched
  /\ ~ballsBody.ok \/ ~NormalizesWithoutError(ballsBody.value)

\* C19: when the primary balls fetch fails (network error, unparseable body,
\* or an error raised while its payload is normalized) the fallback endpoint
\* is not called and the request completes with lastBall = null and
\* currentPlayers = null; the fallback is called only after a primary payload
\* that normalized without error to no ball.
C19_FailedPrimarySkipsFallback ==
  /\ PrimaryFailed
       => /\ Count(calls, "altBalls") = 0
          /\ pc = "done"
          /\ CarriesChosen
          /\ Sent.lastBall = Null
          /\ Sent.currentPlayers = Null
  /\ Count(calls, "altBalls") > 0 => PrimaryYieldsNoBall


\* at most one response is sent, and the handler has ended exactly when one
\* is sent: an HTTP 400, 200 or 500
OneResponseAtMost ==
  /\ Len(responses) <= 1
  /\ pc = "done" <=> Len(responses) = 1
  /\ \A i \in 1..Len(responses) : responses[i].status \in {400, 200, 500}

\* C20: every request whose upstream calls each eventually return or fail
\* ends with exactly one HTTP response (400, 200 or 500): no path sends two
\* responses and no path ends without one.
C20_ExactlyOneResponse ==
  /\ []OneResponseAtMost
  /\ <>[](pc = "done" /\ Len(responses) = 1)

\* a request that went through the four upstream calls and sent its response
C20_Witness ==
  /\ pc = "done"
  /\ Len(calls) = 4
  /\ Len(responses) = 1
  /\ responses[1].status = 200


\* the last ball a request alone resolves from the balls bodies it received
BallAlone(r) ==
  LET primary == resolveBall(ballsBody[r], Null)
  IN  IF altBody[r] = NotFetched THEN primary.ball
      ELSE resolveBall(altBody[r], primary.ball).ball

\* the response of request r had it run alone against the upstream payloads
\* it received: its matches list, its detail and its balls bodies
ResponseAlone(r) ==
  IF gradeId[r] = "" THEN BadRequest
  ELSE IF teamId[r] = "" THEN Ok(matches[r])
  ELSE IF Len(teamMatchesOf(matches[r], teamId[r])) = 0 THEN Ok(<<>>)
  ELSE finish([chooseMatch(matches[r], teamId[r]) EXCEPT !.detail = chosen[r].detail],
              BallAlone(r)).response

\* the state of the handling of request r
Locals(r) ==
  <<pc[r], gradeId[r], teamId[r], matches[r], chosen[r], lastBall[r],
    ballsBody[r], altBody[r], calls[r], responses[r]>>

\* every answered request has the one response it has alone
AnsweredAsAlone ==
  \A r \in Reqs : pc[r] = "done" => responses[r] = <<ResponseAlone(r)>>

\* a step changes the state of one request only
StepsOfOneRequest ==
  \A r \in Reqs : \A q \in Reqs \ {r} :
    Locals(r)' # Locals(r) => Locals(q)' = Locals(q)

\* C16: requests are isolated: under every interleaving of concurrent
\* requests at their upstream calls, the response of each request is the
\* response it has alone with the upstream responses it received, and no
\* step of one request changes the state of another.
C16_RequestsIsolated ==
  /\ []AnsweredAsAlone
  /\ [][StepsOfOneRequest]_vars

\* two requests for the same team, both answered: one with its last ball,
\* the other without any
C16_Witness ==
  /\ \A r \in Reqs : pc[r] = "done" /\ teamId[r] = "T1" /\ Len(calls[r]) >= 3
  /\ responses["a"] = <<Ok(<<chosen["a"]>>)>>
  /\ responses["b"] = <<Ok(<<chosen["b"]>>)>>
  /\ chosen["a"].lastBall = Ball1
  /\ chosen["b"].lastBall = Null
  /\ chosen["b"].currentPlayers = Null

====
